---- MODULE Spec2Model ----
(***************************************************************************)
(* Model of src/utils.ts of api-ref-bundler: path normalization, JSON      *)
(* reference parsing, the JSON pointer codec and the path-addressed tree   *)
(* accessors.  Strings are sequences of UTF-16 code units (integers).      *)
(* A call result is a record [ok, v]: ok = FALSE is a raised exception.    *)
(***************************************************************************)
EXTENDS Integers, Sequences, FiniteSets, TLC

VARIABLES pc, args, ret, heap

vars == <<pc, args, ret, heap>>

(* ---------------------------------------------------------------------- *)
(* Character codes                                                         *)
(* ---------------------------------------------------------------------- *)
SLASH == 47
DOT == 46
PERCENT == 37
HASH == 35
TILDE == 126
COLON == 58
QUESTION == 63
DIGIT0 == 48
DIGIT1 == 49

Str(alphabet, n) == UNION { [1..k -> alphabet] : k \in 0..n }

Returned(v) == [ok |-> TRUE, v |-> v]
Thrown == [ok |-> FALSE, v |-> <<>>]

(* ---------------------------------------------------------------------- *)
(* decodeURIComponent (ECMAScript Decode with an empty reserved set)       *)
(* ---------------------------------------------------------------------- *)
IsHex(c) == (c >= 48 /\ c <= 57) \/ (c >= 65 /\ c <= 70) \/ (c >= 97 /\ c <= 102)

HexVal(c) == IF c <= 57 THEN c - 48 ELSE IF c <= 70 THEN c - 55 ELSE c - 87

\* s[k] = '%' followed by two hex digits (k is 1-based)
IsEscapeAt(s, k) == k + 2 <= Len(s) /\ s[k] = PERCENT /\ IsHex(s[k + 1]) /\ IsHex(s[k + 2])

ByteAt(s, k) == 16 * HexVal(s[k + 1]) + HexVal(s[k + 2])

\* number of octets announced by a lead octet; 0 when it cannot lead
Utf8Len(b) == IF b < 128 THEN 1
              ELSE IF b >= 192 /\ b <= 223 THEN 2
              ELSE IF b >= 224 /\ b <= 239 THEN 3
              ELSE IF b >= 240 /\ b <= 247 THEN 4
              ELSE 0

IsCont(b) == b >= 128 /\ b <= 191

\* code point of a UTF-8 octet sequence, -1 when the sequence is not valid
Utf8CodePoint(o) ==
  LET n == Len(o) IN
  IF n = 1 THEN o[1]
  ELSE IF \E j \in 2..n : ~IsCont(o[j]) THEN -1
  ELSE LET cp == IF n = 2 THEN (o[1] - 192) * 64 + (o[2] - 128)
                 ELSE IF n = 3 THEN (o[1] - 224) * 4096 + (o[2] - 128) * 64 + (o[3] - 128)
                 ELSE (o[1] - 240) * 262144 + (o[2] - 128) * 4096 + (o[3] - 128) * 64 + (o[4] - 128)
           min == IF n = 2 THEN 128 ELSE IF n = 3 THEN 2048 ELSE 65536
       IN IF cp < min \/ cp > 1114111 \/ (cp >= 55296 /\ cp <= 57343) THEN -1 ELSE cp

\* UTF-16 code units of a code point
Utf16(cp) == IF cp < 65536 THEN <<cp>>
             ELSE <<55296 + ((cp - 65536) \div 1024), 56320 + ((cp - 65536) % 1024)>>

RECURSIVE DecodeFrom(_, _, _)
DecodeFrom(s, k, acc) ==
  IF k > Len(s) THEN Returned(acc)
  ELSE IF s[k] # PERCENT THEN DecodeFrom(s, k + 1, Append(acc, s[k]))
  ELSE IF ~IsEscapeAt(s, k) THEN Thrown
  ELSE LET b == ByteAt(s, k)
           n == Utf8Len(b)
       IN IF n = 0 THEN Thrown
          ELSE IF k + 3 * n - 1 > Len(s) THEN Thrown
          ELSE IF \E j \in 1..(n - 1) : ~IsEscapeAt(s, k + 3 * j) THEN Thrown
          ELSE LET octets == [j \in 1..n |-> ByteAt(s, k + 3 * (j - 1))]
                   cp == Utf8CodePoint(octets)
               IN IF cp < 0 THEN Thrown
                  ELSE DecodeFrom(s, k + 3 * n, acc \o Utf16(cp))

decodeURIComponent(s) == DecodeFrom(s, 1, <<>>)

(* ---------------------------------------------------------------------- *)
(* String.prototype.split / Array.prototype.join for a one-character       *)
(* separator                                                               *)
(* ---------------------------------------------------------------------- *)
IndexOf(s, c) ==
  LET hits == { j \in 1..Len(s) : s[j] = c } IN
  IF hits = {} THEN -1 ELSE (CHOOSE j \in hits : \A h \in hits : j <= h) - 1

RECURSIVE Split(_, _)
Split(s, c) ==
  LET at == IndexOf(s, c) IN
  IF at = -1 THEN <<s>>
  ELSE <<SubSeq(s, 1, at)>> \o Split(SubSeq(s, at + 2, Len(s)), c)

RECURSIVE Join(_, _)
Join(parts, c) ==
  IF Len(parts) = 0 THEN <<>>
  ELSE IF Len(parts) = 1 THEN parts[1]
  ELSE parts[1] \o <<c>> \o Join(Tail(parts), c)

(* ---------------------------------------------------------------------- *)
(* posixNormalize: the character scanner taken from node                   *)
(* ---------------------------------------------------------------------- *)
\* res.lastIndexOf(c), 0-based, -1 when absent
LastIndexOf(s, c) ==
  LET hits == { j \in 1..Len(s) : s[j] = c } IN
  IF hits = {} THEN -1 ELSE (CHOOSE j \in hits : \A h \in hits : h <= j) - 1

\* s.slice(from, to) with 0-based, in-range arguments
Slice(s, from, to) == SubSeq(s, from + 1, to)

\* the locals before the loop; code = -1 stands for undefined
PosixStart == [res |-> <<>>, lastSegmentLength |-> 0, lastSlash |-> -1, dots |-> 0, code |-> -1, i |-> 0]

\* the body of the loop for one i, after code has been fetched
PosixBody(path, allowAboveRoot, st, code) ==
  LET i == st.i
      res == st.res
      seen == [st EXCEPT !.code = code, !.i = i + 1]
      closed == [seen EXCEPT !.lastSlash = i, !.dots = 0]
  IN
  IF code = SLASH THEN
    IF st.lastSlash = i - 1 \/ st.dots = 1 THEN closed
    ELSE IF st.lastSlash # i - 1 /\ st.dots = 2 THEN
      LET notDotDot == Len(res) < 2 \/ st.lastSegmentLength # 2
                       \/ res[Len(res)] # DOT \/ res[Len(res) - 1] # DOT
          lastSlashIndex == LastIndexOf(res, SLASH)
          above == IF allowAboveRoot
                   THEN [closed EXCEPT !.res = IF Len(res) > 0 THEN res \o <<SLASH, DOT, DOT>> ELSE <<DOT, DOT>>,
                                       !.lastSegmentLength = 2]
                   ELSE closed
      IN
      IF notDotDot /\ Len(res) > 2 /\ lastSlashIndex # Len(res) - 1 THEN
        IF lastSlashIndex = -1
        THEN [closed EXCEPT !.res = <<>>, !.lastSegmentLength = 0]
        ELSE LET cut == Slice(res, 0, lastSlashIndex)
             IN [closed EXCEPT !.res = cut, !.lastSegmentLength = Len(cut) - 1 - LastIndexOf(cut, SLASH)]
      ELSE IF notDotDot /\ Len(res) <= 2 /\ (Len(res) = 2 \/ Len(res) = 1) THEN
        [closed EXCEPT !.res = <<>>, !.lastSegmentLength = 0]
      ELSE above
    ELSE
      LET seg == Slice(path, st.lastSlash + 1, i)
      IN [closed EXCEPT !.res = IF Len(res) > 0 THEN res \o <<SLASH>> \o seg ELSE seg,
                        !.lastSegmentLength = i - st.lastSlash - 1]
  ELSE IF code = DOT /\ st.dots # -1 THEN [seen EXCEPT !.dots = st.dots + 1]
  ELSE [seen EXCEPT !.dots = -1]

RECURSIVE PosixLoop(_, _, _)
PosixLoop(path, allowAboveRoot, st) ==
  IF st.i > Len(path) THEN st.res
  ELSE IF st.i < Len(path) THEN PosixLoop(path, allowAboveRoot, PosixBody(path, allowAboveRoot, st, path[st.i + 1]))
  ELSE IF st.code = SLASH THEN st.res
  ELSE PosixLoop(path, allowAboveRoot, PosixBody(path, allowAboveRoot, st, SLASH))

\* posixNormalize that lets every path climb above its root
posixNormalizeAlwaysAbove(path, allowAboveRoot) == PosixLoop(path, TRUE, PosixStart)

posixNormalize(path, allowAboveRoot) == PosixLoop(path, allowAboveRoot, PosixStart)

(* ---------------------------------------------------------------------- *)
(* normalize                                                               *)
(* ---------------------------------------------------------------------- *)
\* the statements after the try block
NormalizeTail(body, isAbsolute, trailingSeparator) ==
  LET dotted == IF Len(body) = 0 /\ ~isAbsolute THEN <<DOT>> ELSE body
      trailed == IF Len(dotted) > 0 /\ trailingSeparator THEN Append(dotted, SLASH) ELSE dotted
  IN IF isAbsolute THEN <<SLASH>> \o trailed ELSE trailed

\* normalize that forgets the '.' of an empty relative result
normalizeNoDot(p) ==
  IF Len(p) = 0 THEN Returned(<<DOT>>)
  ELSE LET isAbsolute == p[1] = SLASH
           trailingSeparator == p[Len(p)] = SLASH
           decoded == decodeURIComponent(p)
           body == IF decoded.ok THEN posixNormalize(decoded.v, ~isAbsolute) ELSE <<>>
           trailed == IF Len(body) > 0 /\ trailingSeparator THEN Append(body, SLASH) ELSE body
       IN IF ~decoded.ok THEN Thrown
          ELSE Returned(IF isAbsolute THEN <<SLASH>> \o trailed ELSE trailed)

\* try { decode } finally { posixNormalize }: with no catch clause the
\* URIError of a failed decode leaves the function after the finally block
normalize(p) ==
  IF Len(p) = 0 THEN Returned(<<DOT>>)
  ELSE LET isAbsolute == p[1] = SLASH
           trailingSeparator == p[Len(p)] = SLASH
           decoded == decodeURIComponent(p)
       IN IF ~decoded.ok THEN Thrown
          ELSE Returned(NormalizeTail(posixNormalize(decoded.v, ~isAbsolute), isAbsolute, trailingSeparator))

(* ---------------------------------------------------------------------- *)
(* Specification Spec: normalize applied once, then to its own result      *)
(* ---------------------------------------------------------------------- *)
MaxEscLen == 5
MaxPlainLen == 7

\* the characters / . a % 2 5 F
EscAlphabet == {SLASH, DOT, 97, PERCENT, 50, 53, 70}
\* the characters / . a
PlainAlphabet == {SLASH, DOT, 97}

PathInputs == Str(EscAlphabet, MaxEscLen) \cup Str(PlainAlphabet, MaxPlainLen)

Init ==
  /\ pc = "start"
  /\ args \in { [p |-> p] : p \in PathInputs }
  /\ ret = <<>>
  /\ heap = <<>>

Normalize ==
  /\ pc = "start"
  /\ pc' = "once"
  /\ ret' = <<normalize(args.p)>>
  /\ UNCHANGED <<args, heap>>

NormalizeAgain ==
  /\ pc = "once"
  /\ ret[1].ok
  /\ pc' = "twice"
  /\ ret' = Append(ret, normalize(ret[1].v))
  /\ UNCHANGED <<args, heap>>

Next == Normalize \/ NormalizeAgain

Spec == Init /\ [][Next]_vars

(* ---------------------------------------------------------------------- *)
(* Properties of normalize                                                 *)
(* ---------------------------------------------------------------------- *)
HasChar(s, c) == \E j \in 1..Len(s) : s[j] = c

DotDot == <<DOT, DOT>>

\* the segment-wise algorithm of the specification, section 4.1
RECURSIVE SegmentFold(_, _, _)
SegmentFold(segs, acc, relative) ==
  IF Len(segs) = 0 THEN acc
  ELSE LET seg == Head(segs)
           next == IF seg = <<>> \/ seg = <<DOT>> THEN acc
                   ELSE IF seg = DotDot THEN
                     IF Len(acc) > 0 /\ acc[Len(acc)] # DotDot THEN SubSeq(acc, 1, Len(acc) - 1)
                     ELSE IF relative THEN Append(acc, seg)
                     ELSE acc
                   ELSE Append(acc, seg)
       IN SegmentFold(Tail(segs), next, relative)

SegmentWise(p) ==
  LET absolute == Len(p) > 0 /\ p[1] = SLASH
      trailing == Len(p) > 0 /\ p[Len(p)] = SLASH
      body == Join(SegmentFold(Split(p, SLASH), <<>>, ~absolute), SLASH)
      dotted == IF Len(body) = 0 /\ ~absolute THEN <<DOT>> ELSE body
      trailed == IF trailing /\ Len(dotted) > 0 THEN Append(dotted, SLASH) ELSE dotted
  IN IF absolute THEN <<SLASH>> \o trailed ELSE trailed

Segments(s) == { Split(s, SLASH)[j] : j \in 1..Len(Split(s, SLASH)) }

\* C1 as stated: normalize(normalize(p)) = normalize(p) for every path p,
\* percent-escapes included.  Only runs in which the second call returns
\* are compared, so that a violation does not rest on a failed decode.
C1_IdempotentForAllPaths == (pc = "twice" /\ ret[2].ok) => ret[2] = ret[1]

\* C1 amended: whenever normalize(p) returns a string without '%',
\* normalizing that string again returns it unchanged.
C1_IdempotentWithoutPercent ==
  (pc = "twice" /\ ~HasChar(ret[1].v, PERCENT)) => ret[2] = ret[1]

C1_Witness ==
  /\ pc = "twice"
  /\ HasChar(args.p, PERCENT)
  /\ ~HasChar(ret[1].v, PERCENT)
  /\ HasChar(ret[1].v, DOT)
  /\ ret[2] = ret[1]

\* C2: normalize never raises on a malformed percent-escape: when decoding
\* p fails, normalize(p) returns the normalization of the undecoded p.
C2_MalformedEscapeIsIgnored ==
  (pc # "start" /\ ~decodeURIComponent(args.p).ok) =>
    ret[1] = Returned(NormalizeTail(posixNormalize(args.p, args.p[1] # SLASH),
                                    args.p[1] = SLASH, args.p[Len(args.p)] = SLASH))

\* C10: for a path without '%' the scanner returns what the segment-wise
\* algorithm returns, and the result of an absolute path has no '..' segment.
C10_ScannerIsSegmentWise ==
  (pc # "start" /\ ~HasChar(args.p, PERCENT)) =>
    /\ ret[1] = Returned(SegmentWise(args.p))
    /\ (Len(args.p) > 0 /\ args.p[1] = SLASH) => DotDot \notin Segments(ret[1].v)

C10_Witness ==
  /\ pc = "once"
  /\ ~HasChar(args.p, PERCENT)
  /\ Len(Split(args.p, SLASH)) = 4
  /\ Split(args.p, SLASH)[2] = DotDot
  /\ ret[1] = Returned(<<SLASH, 97, SLASH>>)

(* ---------------------------------------------------------------------- *)
(* encodeURIComponent (ECMAScript Encode with the unreserved set           *)
(* A-Z a-z 0-9 - _ . ! ~ * ' ( ) )                                          *)
(* ---------------------------------------------------------------------- *)
IsUnreserved(c) ==
  \/ (c >= 48 /\ c <= 57) \/ (c >= 65 /\ c <= 90) \/ (c >= 97 /\ c <= 122)
  \/ c \in {45, 95, 46, 33, 126, 42, 39, 40, 41}

HexDigit(d) == IF d < 10 THEN 48 + d ELSE 55 + d

PercentOctet(b) == <<PERCENT, HexDigit(b \div 16), HexDigit(b % 16)>>

Utf8Escapes(cp) ==
  IF cp < 128 THEN PercentOctet(cp)
  ELSE IF cp < 2048 THEN PercentOctet(192 + (cp \div 64)) \o PercentOctet(128 + (cp % 64))
  ELSE IF cp < 65536 THEN PercentOctet(224 + (cp \div 4096)) \o PercentOctet(128 + ((cp \div 64) % 64))
                          \o PercentOctet(128 + (cp % 64))
  ELSE PercentOctet(240 + (cp \div 262144)) \o PercentOctet(128 + ((cp \div 4096) % 64))
       \o PercentOctet(128 + ((cp \div 64) % 64)) \o PercentOctet(128 + (cp % 64))

IsLowSurrogate(c) == c >= 56320 /\ c <= 57343
IsHighSurrogate(c) == c >= 55296 /\ c <= 56319

RECURSIVE EncodeFrom(_, _, _)
EncodeFrom(s, k, acc) ==
  IF k > Len(s) THEN Returned(acc)
  ELSE IF IsUnreserved(s[k]) THEN EncodeFrom(s, k + 1, Append(acc, s[k]))
  ELSE IF IsLowSurrogate(s[k]) THEN Thrown
  ELSE IF ~IsHighSurrogate(s[k]) THEN EncodeFrom(s, k + 1, acc \o Utf8Escapes(s[k]))
  ELSE IF k + 1 > Len(s) \/ ~IsLowSurrogate(s[k + 1]) THEN Thrown
  ELSE EncodeFrom(s, k + 2, acc \o Utf8Escapes((s[k] - 55296) * 1024 + (s[k + 1] - 56320) + 65536))

encodeURIComponent(s) == EncodeFrom(s, 1, <<>>)

(* ---------------------------------------------------------------------- *)
(* Pointer codec: pathMask, parsePointer, buildPointer                     *)
(* ---------------------------------------------------------------------- *)
\* s.replace(/pat/g, rep) for a literal pattern
RECURSIVE ReplaceAll(_, _, _)
ReplaceAll(s, pat, rep) ==
  IF Len(s) < Len(pat) THEN s
  ELSE IF SubSeq(s, 1, Len(pat)) = pat THEN rep \o ReplaceAll(SubSeq(s, Len(pat) + 1, Len(s)), pat, rep)
  ELSE <<s[1]>> \o ReplaceAll(Tail(s), pat, rep)

pathMask == [slash |-> <<SLASH>>, tilde |-> <<TILDE>>,
             escapedSlash |-> <<TILDE, DIGIT1>>, escapedTilde |-> <<TILDE, DIGIT0>>]

\* String(i) of a non-negative integer
RECURSIVE NumStr(_)
NumStr(n) == IF n < 10 THEN <<48 + n>> ELSE Append(NumStr(n \div 10), 48 + (n % 10))

\* an ObjPath element is a string or a number
StrTok(s) == [num |-> FALSE, n |-> 0, s |-> s]
NumTok(n) == [num |-> TRUE, n |-> n, s |-> <<>>]

String(tok) == IF tok.num THEN NumStr(tok.n) ELSE tok.s

\* the callback of parsePointer's map, unescaping '~0' before '~1'
DecodeSegmentTildeFirst(i) ==
  decodeURIComponent(ReplaceAll(ReplaceAll(i, pathMask.escapedTilde, <<TILDE>>), pathMask.escapedSlash, <<SLASH>>))

\* the callback of parsePointer's map
DecodeSegment(i) ==
  decodeURIComponent(ReplaceAll(ReplaceAll(i, pathMask.escapedSlash, <<SLASH>>), pathMask.escapedTilde, <<TILDE>>))

parsePointer(pointer) ==
  LET parts == Split(pointer, SLASH)
      decoded == [j \in 1..Len(parts) |-> DecodeSegment(parts[j])]
  IN IF \E j \in 1..Len(parts) : ~decoded[j].ok THEN Thrown
     ELSE Returned(Tail([j \in 1..Len(parts) |-> StrTok(decoded[j].v)]))

\* the callback of buildPointer's map
EncodeToken(tok) ==
  encodeURIComponent(ReplaceAll(ReplaceAll(String(tok), pathMask.tilde, <<TILDE, DIGIT0>>),
                                pathMask.slash, <<TILDE, DIGIT1>>))

buildPointer(path) ==
  IF Len(path) = 0 THEN Returned(<<>>)
  ELSE LET encoded == [j \in 1..Len(path) |-> EncodeToken(path[j])]
       IN IF \E j \in 1..Len(path) : ~encoded[j].ok THEN Thrown
          ELSE Returned(<<SLASH>> \o Join([j \in 1..Len(path) |-> encoded[j].v], SLASH))

(* ---------------------------------------------------------------------- *)
(* Specification SpecPointer: buildPointer, then parsePointer of its       *)
(* result                                                                   *)
(* ---------------------------------------------------------------------- *)
MaxTokens == 2
MaxTokenLen == 1
MaxIndex == 10

\* the characters / ~ 0 1 %
PointerAlphabet == {SLASH, TILDE, DIGIT0, DIGIT1, PERCENT}

\* '~0', '~1', '~01', '/~', '%2F', 'a' followed by U+00E9, and an unpaired
\* surrogate
ExtraTokens ==
  { <<TILDE, DIGIT0>>, <<TILDE, DIGIT1>>, <<TILDE, DIGIT0, DIGIT1>>, <<SLASH, TILDE>>,
    <<PERCENT, 50, 70>>, <<97, 233>>, <<55296>> }

TokenInputs ==
  { StrTok(s) : s \in Str(PointerAlphabet, MaxTokenLen) \cup ExtraTokens } \cup { NumTok(n) : n \in 0..MaxIndex }

InitPointer ==
  /\ pc = "start"
  /\ \E k \in 0..MaxTokens : \E t \in [1..k -> TokenInputs] : args = [path |-> t]
  /\ ret = <<>>
  /\ heap = <<>>

BuildPointer ==
  /\ pc = "start"
  /\ pc' = "built"
  /\ ret' = <<buildPointer(args.path)>>
  /\ UNCHANGED <<args, heap>>

ParsePointer ==
  /\ pc = "built"
  /\ ret[1].ok
  /\ pc' = "parsed"
  /\ ret' = Append(ret, parsePointer(ret[1].v))
  /\ UNCHANGED <<args, heap>>

NextPointer == BuildPointer \/ ParsePointer

SpecPointer == InitPointer /\ [][NextPointer]_vars

Stringified(path) == [j \in 1..Len(path) |-> StrTok(String(path[j]))]

\* C5 as stated: parsePointer(buildPointer(t)) = t for every token sequence,
\* integer index tokens included.
C5_RoundTripIsIdentity == pc = "parsed" => ret[2] = Returned(args.path)

\* C5 amended: parsePointer(buildPointer(t)) is t with every integer token
\* replaced by its decimal string, hence t itself when all tokens are strings.
C5_RoundTripStringifies == pc = "parsed" => ret[2] = Returned(Stringified(args.path))

C5_Witness ==
  /\ pc = "parsed"
  /\ Len(args.path) = 2
  /\ args.path[1] = StrTok(<<TILDE, DIGIT1>>)
  /\ HasChar(args.path[2].s, SLASH) /\ HasChar(args.path[2].s, TILDE)
  /\ ret[2] = Returned(args.path)

(* ---------------------------------------------------------------------- *)
(* validURL: the regular expression, matched by sets of end positions      *)
(* (a position is the number of characters consumed)                       *)
(* ---------------------------------------------------------------------- *)
IsDigit(c) == c >= 48 /\ c <= 57
IsAlpha(c) == (c >= 97 /\ c <= 122) \/ (c >= 65 /\ c <= 90)
IsAlnum(c) == IsAlpha(c) \/ IsDigit(c)
ToLower(c) == IF c >= 65 /\ c <= 90 THEN c + 32 ELSE c

\* [-a-z\d%_.~+]
IsUrlPathChar(c) == IsAlnum(c) \/ c \in {45, 37, 95, 46, 126, 43}
\* [;&a-z\d%_.~+=-]
IsUrlQueryChar(c) == IsAlnum(c) \/ c \in {59, 38, 37, 95, 46, 126, 43, 61, 45}
\* [-a-z\d_]
IsUrlFragmentChar(c) == IsAlnum(c) \/ c \in {45, 95}

HttpPrefix == <<104, 116, 116, 112, 58, 47, 47>>
HttpsPrefix == <<104, 116, 116, 112, 115, 58, 47, 47>>

LowerCase(s) == [j \in 1..Len(s) |-> ToLower(s[j])]

StartsWithIgnoreCase(s, pre) == Len(s) >= Len(pre) /\ LowerCase(SubSeq(s, 1, Len(pre))) = pre

\* ^(https?:\/\/)
ProtocolEnds(s) ==
  (IF StartsWithIgnoreCase(s, HttpPrefix) THEN {Len(HttpPrefix)} ELSE {})
  \cup (IF StartsWithIgnoreCase(s, HttpsPrefix) THEN {Len(HttpsPrefix)} ELSE {})

\* [a-z\d]([a-z\d-]*[a-z\d])* on s[from+1..to]
IsLabel(s, from, to) ==
  /\ to > from
  /\ IsAlnum(s[from + 1]) /\ IsAlnum(s[to])
  /\ \A j \in (from + 1)..to : IsAlnum(s[j]) \/ s[j] = 45

\* (label)\.
LabelDotEnds(s, from) == { e \in (from + 2)..Len(s) : s[e] = DOT /\ IsLabel(s, from, e - 1) }

RECURSIVE LabelClosure(_, _)
LabelClosure(s, reached) ==
  LET more == reached \cup UNION { LabelDotEnds(s, k) : k \in reached }
  IN IF more = reached THEN reached ELSE LabelClosure(s, more)

\* ((label)\.)+[a-z]{2,}
DomainEnds(s, from) ==
  LET dots == LabelClosure(s, LabelDotEnds(s, from))
  IN UNION { { e \in (k + 2)..Len(s) : \A j \in (k + 1)..e : IsAlpha(s[j]) } : k \in dots }

\* \d{1,3}
DigitsEnds(s, from) == { e \in (from + 1)..Len(s) : e <= from + 3 /\ \A j \in (from + 1)..e : IsDigit(s[j]) }

\* \d{1,3}\.
DigitsDotEnds(s, from) == { e + 1 : e \in { d \in DigitsEnds(s, from) : d + 1 <= Len(s) /\ s[d + 1] = DOT } }

\* (\d{1,3}\.){3}\d{1,3}
Ipv4Ends(s, from) ==
  LET one == DigitsDotEnds(s, from)
      two == UNION { DigitsDotEnds(s, k) : k \in one }
      three == UNION { DigitsDotEnds(s, k) : k \in two }
  IN UNION { DigitsEnds(s, k) : k \in three }

\* (\:\d+)?
PortEnds(s, from) ==
  {from} \cup { e \in (from + 2)..Len(s) : s[from + 1] = COLON /\ \A j \in (from + 2)..e : IsDigit(s[j]) }

\* (\/[-a-z\d%_.~+]*)*
UrlPathEnds(s, from) ==
  {from} \cup { e \in (from + 1)..Len(s) :
                  s[from + 1] = SLASH /\ \A j \in (from + 1)..e : s[j] = SLASH \/ IsUrlPathChar(s[j]) }

\* (\?[;&a-z\d%_.~+=-]*)?
QueryEnds(s, from) ==
  {from} \cup { e \in (from + 1)..Len(s) :
                  s[from + 1] = QUESTION /\ \A j \in (from + 2)..e : IsUrlQueryChar(s[j]) }

\* (\#[-a-z\d_]*)?
FragmentEnds(s, from) ==
  {from} \cup { e \in (from + 1)..Len(s) :
                  s[from + 1] = HASH /\ \A j \in (from + 2)..e : IsUrlFragmentChar(s[j]) }

validURL(str) ==
  LET proto == ProtocolEnds(str)
      host == UNION { DomainEnds(str, k) \cup Ipv4Ends(str, k) : k \in proto }
      port == UNION { PortEnds(str, k) : k \in host }
      path == UNION { UrlPathEnds(str, k) : k \in port }
      query == UNION { QueryEnds(str, k) : k \in path }
      fragment == UNION { FragmentEnds(str, k) : k \in query }
  IN Len(str) \in fragment

(* ---------------------------------------------------------------------- *)
(* new URL(s).href for the URLs validURL accepts whose authority is a      *)
(* domain name of letters, without port, query or percent-escape: the      *)
(* scheme and host in lower case, then the path with its dot segments      *)
(* removed, '/' for an empty path                                           *)
(* ---------------------------------------------------------------------- *)
RECURSIVE UrlPathFold(_, _)
UrlPathFold(segs, acc) ==
  IF Len(segs) = 0 THEN acc
  ELSE LET seg == Head(segs)
           last == Len(segs) = 1
           popped == IF Len(acc) > 0 THEN SubSeq(acc, 1, Len(acc) - 1) ELSE acc
           next == IF seg = <<DOT, DOT>> THEN (IF last THEN Append(popped, <<>>) ELSE popped)
                   ELSE IF seg = <<DOT>> THEN (IF last THEN Append(acc, <<>>) ELSE acc)
                   ELSE Append(acc, seg)
       IN UrlPathFold(Tail(segs), next)

UrlHref(s) ==
  LET schemeEnd == CHOOSE k \in ProtocolEnds(s) : TRUE
      rest == SubSeq(s, schemeEnd + 1, Len(s))
      slashAt == IndexOf(rest, SLASH)
      host == IF slashAt = -1 THEN rest ELSE SubSeq(rest, 1, slashAt)
      path == IF slashAt = -1 THEN <<>> ELSE SubSeq(rest, slashAt + 1, Len(rest))
      segs == IF Len(path) = 0 THEN <<>> ELSE UrlPathFold(Tail(Split(path, SLASH)), <<>>)
  IN LowerCase(SubSeq(s, 1, schemeEnd)) \o LowerCase(host) \o <<SLASH>> \o Join(segs, SLASH)

(* ---------------------------------------------------------------------- *)
(* createRef, relativePath, parseRef                                       *)
(* ---------------------------------------------------------------------- *)
createRef(basePath, pointer) ==
  IF Len(basePath) = 0
  THEN (IF Len(pointer) = 0 THEN <<HASH>> ELSE <<HASH>> \o pointer)
  ELSE basePath \o (IF Len(pointer) = 0 THEN <<>> ELSE <<HASH>> \o pointer)

relativePath(path, basePath) ==
  IF Len(basePath) = 0 THEN normalize(path)
  ELSE IF Len(path) = 0 THEN normalize(basePath)
  ELSE LET base == Split(basePath, SLASH)
       IN normalize(Join([base EXCEPT ![Len(base)] = path], SLASH))

\* split("#") always yields a first element, so the default of the
\* destructuring (basePath) applies to no string; an absent second element
\* is undefined, which the pointer test treats like the empty string
parseRef(ref, basePath) ==
  LET parts == Split(ref, HASH)
      sourcePath == IF Len(parts) >= 1 THEN parts[1] ELSE basePath
      fragment == IF Len(parts) >= 2 THEN parts[2] ELSE <<>>
      filePath == IF validURL(sourcePath) THEN Returned(UrlHref(sourcePath))
                  ELSE relativePath(sourcePath, basePath)
      pointer == IF Len(fragment) = 0 \/ fragment = <<SLASH>> THEN <<>> ELSE fragment
  IN IF ~filePath.ok THEN Thrown
     ELSE Returned([filePath |-> filePath.v, pointer |-> pointer,
                    normalized |-> createRef(filePath.v, pointer)])

(* ---------------------------------------------------------------------- *)
(* Specification SpecRef: parseRef of a reference against a base path      *)
(* ---------------------------------------------------------------------- *)
MaxRefLen == 3
MaxBaseLen == 3

\* '', 'http://a.aa' and 'HTTPS://a.Aa'
LocationPrefixes ==
  { <<>>,
    HttpPrefix \o <<97, DOT, 97, 97>>,
    <<72, 84, 84, 80, 83, 58, 47, 47>> \o <<97, DOT, 65, 97>> }

RefInputs == { pre \o body : pre \in LocationPrefixes, body \in Str({HASH, SLASH, 97, DOT}, MaxRefLen) }
BaseInputs == { pre \o body : pre \in LocationPrefixes, body \in Str({SLASH, 97, DOT}, MaxBaseLen) }

InitRef ==
  /\ pc = "start"
  /\ args \in { [ref |-> r, basePath |-> b] : r \in RefInputs, b \in BaseInputs }
  /\ ret = <<>>
  /\ heap = <<>>

ParseRef ==
  /\ pc = "start"
  /\ pc' = "parsed"
  /\ ret' = <<parseRef(args.ref, args.basePath)>>
  /\ UNCHANGED <<args, heap>>

NextRef == ParseRef

SpecRef == InitRef /\ [][NextRef]_vars

\* C3: a ref with nothing before its '#' resolves to the base location:
\* filePath is basePath when basePath is already normalized, and the
\* canonical URL of basePath when basePath is a valid http(s) URL.
C3_EmptySourceFallsBackToBase ==
  (pc = "parsed" /\ IndexOf(args.ref, HASH) = 0) =>
    /\ ret[1].ok
    /\ normalize(args.basePath) = Returned(args.basePath) => ret[1].v.filePath = args.basePath
    /\ validURL(args.basePath) => ret[1].v.filePath = UrlHref(args.basePath)

\* C4: the pointer is everything after the FIRST '#', later '#' included,
\* except that an empty fragment or the fragment '/' gives the empty pointer.
C4_PointerIsRestAfterFirstHash ==
  (pc = "parsed" /\ ret[1].ok /\ HasChar(args.ref, HASH)) =>
    LET rest == SubSeq(args.ref, IndexOf(args.ref, HASH) + 2, Len(args.ref))
    IN ret[1].v.pointer = IF Len(rest) = 0 \/ rest = <<SLASH>> THEN <<>> ELSE rest

(* ---------------------------------------------------------------------- *)
(* Tree values on a heap.  A value is undefined, null, a number, the       *)
(* one-character string 's', or a reference to a heap object; an object is *)
(* a mapping or an array with its own properties keyed by property name.   *)
(* ---------------------------------------------------------------------- *)
UNDEFINED == [t |-> "undef", n |-> 0]
NULL == [t |-> "null", n |-> 0]
Num(n) == [t |-> "num", n |-> n]
STRING_S == [t |-> "str", n |-> 0]
Ref(a) == [t |-> "ref", n |-> a]

EmptyProps == [k \in {} |-> UNDEFINED]
EmptyMapping == [arr |-> FALSE, len |-> 0, props |-> EmptyProps]

isObject(value) == value.t \in {"ref", "null"} /\ value.t # "null"

IsArray(h, value) == value.t = "ref" /\ h[value.n].arr

AllDigits(k) == Len(k) > 0 /\ \A j \in 1..Len(k) : IsDigit(k[j])

RECURSIVE NumVal(_)
NumVal(k) == IF Len(k) = 0 THEN 0 ELSE 10 * NumVal(SubSeq(k, 1, Len(k) - 1)) + (k[Len(k)] - 48)

\* canonical array index: the decimal string of a number
IsIndexKey(k) == AllDigits(k) /\ NumStr(NumVal(k)) = k

NAN_KEY == <<78, 97, 78>>

\* the property key of value[+key]
UnaryPlusKey(tok) ==
  IF tok.num THEN NumStr(tok.n)
  ELSE IF Len(tok.s) = 0 THEN <<DIGIT0>>
  ELSE IF AllDigits(tok.s) THEN NumStr(NumVal(tok.s))
  ELSE NAN_KEY

\* value[key]: raises on null and undefined, finds nothing on a number
GetProp(h, value, key) ==
  IF value.t \in {"null", "undef"} THEN Thrown
  ELSE IF value.t = "num" THEN Returned(UNDEFINED)
  ELSE IF value.t = "str" THEN Returned(IF key = <<DIGIT0>> THEN value ELSE UNDEFINED)
  ELSE Returned(IF key \in DOMAIN h[value.n].props THEN h[value.n].props[key] ELSE UNDEFINED)

\* heap after obj[key] = value on the object at address a
SetProp(h, a, key, value) ==
  LET o == h[a]
      props == [k \in (DOMAIN o.props) \cup {key} |-> IF k = key THEN value ELSE o.props[k]]
      len == IF o.arr /\ IsIndexKey(key) /\ NumVal(key) >= o.len THEN NumVal(key) + 1 ELSE o.len
  IN [h EXCEPT ![a] = [arr |-> o.arr, len |-> len, props |-> props]]

\* Object.keys order: array indices ascending, then the named keys
KeyRank(k) == IF IsIndexKey(k) THEN NumVal(k) ELSE 1000 + k[1]

RECURSIVE KeySeq(_)
KeySeq(keys) ==
  IF keys = {} THEN <<>>
  ELSE LET m == CHOOSE k \in keys : \A o \in keys : KeyRank(k) <= KeyRank(o)
       IN <<m>> \o KeySeq(keys \ {m})

(* ---------------------------------------------------------------------- *)
(* getValueByPath, setValueByPath                                          *)
(* ---------------------------------------------------------------------- *)
RECURSIVE GetLoop(_, _, _, _)
GetLoop(h, value, path, j) ==
  IF j > Len(path) THEN Returned(value)
  ELSE LET key == path[j]
           next == IF IsArray(h, value) THEN GetProp(h, value, UnaryPlusKey(key))
                   ELSE GetProp(h, value, String(key))
       IN IF ~next.ok THEN Thrown
          ELSE IF next.v = UNDEFINED THEN Returned(UNDEFINED)
          ELSE GetLoop(h, next.v, path, j + 1)

getValueByPath(h, obj, path) == GetLoop(h, obj, path, 1)

\* result [ok, heap]; i counts from 0 as in the source.  The module is
\* strict code: writing a property of a number or string raises.
RECURSIVE setValueByPath(_, _, _, _, _)
setValueByPath(h, obj, path, value, i) ==
  IF i >= Len(path) THEN [ok |-> TRUE, heap |-> h]
  ELSE IF obj.t # "ref" THEN [ok |-> FALSE, heap |-> h]
  ELSE LET key == String(path[i + 1])
           old == GetProp(h, obj, key).v
           h1 == IF old.t \notin {"ref", "null"}
                 THEN SetProp(Append(h, EmptyMapping), obj.n, key, Ref(Len(h) + 1))
                 ELSE h
       IN IF i = Len(path) - 1 THEN [ok |-> TRUE, heap |-> SetProp(h1, obj.n, key, value)]
          ELSE setValueByPath(h1, GetProp(h1, obj, key).v, path, value, i + 1)

(* ---------------------------------------------------------------------- *)
(* mergeValues                                                             *)
(* ---------------------------------------------------------------------- *)
\* [...value, ...patch]: a new array of the elements of both
ArraySpread(h, value, patch) ==
  LET lv == h[value.n].len
      lp == h[patch.n].len
      elem(j) == IF j < lv THEN GetProp(h, value, NumStr(j)).v ELSE GetProp(h, patch, NumStr(j - lv)).v
      props == [k \in { NumStr(j) : j \in 0..(lv + lp - 1) } |-> elem(NumVal(k))]
  IN [heap |-> Append(h, [arr |-> TRUE, len |-> lv + lp, props |-> props]), v |-> Ref(Len(h) + 1)]

\* no copy: the result is value itself
ObjectSpreadAlias(h, value) == [heap |-> h, v |-> value]

\* { ...value }: a new mapping with the own properties of value
ObjectSpread(h, value) ==
  [heap |-> Append(h, [arr |-> FALSE, len |-> 0, props |-> h[value.n].props]), v |-> Ref(Len(h) + 1)]

RECURSIVE mergeValues(_, _, _)
RECURSIVE MergeKeys(_, _, _, _)

\* for (const key of Object.keys(patch)) result[key] = mergeValues(result[key], patch[key])
MergeKeys(h, result, patch, keys) ==
  IF Len(keys) = 0 THEN [heap |-> h, v |-> result]
  ELSE LET key == Head(keys)
           merged == mergeValues(h, GetProp(h, result, key).v, GetProp(h, patch, key).v)
       IN MergeKeys(SetProp(merged.heap, result.n, key, merged.v), result, patch, Tail(keys))

mergeValues(h, value, patch) ==
  IF IsArray(h, value) /\ IsArray(h, patch) THEN ArraySpread(h, value, patch)
  ELSE IF isObject(value) /\ isObject(patch) THEN
    LET result == ObjectSpread(h, value)
    IN MergeKeys(result.heap, result.v, patch, KeySeq(DOMAIN h[patch.n].props))
  ELSE [heap |-> h, v |-> patch]

(* ---------------------------------------------------------------------- *)
(* Specification SpecTree: one call of getValueByPath, of setValueByPath   *)
(* (followed by a get of the same path) or of mergeValues on tree values   *)
(* built on the heap                                                        *)
(* ---------------------------------------------------------------------- *)
MaxArrayLen == 2
MaxObjPathLen == 2

KEY_A == <<97>>
KEY_B == <<98>>

\* a tree literal: a leaf value, a mapping of trees or an array of trees
Leaf(v) == [k |-> "leaf", v |-> v, f |-> EmptyProps, e |-> <<>>]
MapTree(f) == [k |-> "map", v |-> UNDEFINED, f |-> f, e |-> <<>>]
ArrTree(e) == [k |-> "arr", v |-> UNDEFINED, f |-> EmptyProps, e |-> e]

LeafTrees == { Leaf(v) : v \in {NULL, Num(1), STRING_S} }

MapTreesOf(children) == { MapTree(f) : f \in UNION { [K -> children] : K \in SUBSET {KEY_A, KEY_B} } }
ArrTreesOf(children) == { ArrTree(e) : e \in UNION { [1..n -> children] : n \in 0..MaxArrayLen } }

FlatTrees == LeafTrees \cup MapTreesOf(LeafTrees) \cup ArrTreesOf(LeafTrees)

NestedTrees == { MapTree([k \in {KEY_A} |-> t]) : t \in FlatTrees } \cup { ArrTree(<<t>>) : t \in FlatTrees }

TreeInputs == FlatTrees \cup NestedTrees

MappingInputs == { t \in TreeInputs : t.k = "map" }

SetValueInputs == { Leaf(NULL), Leaf(Num(1)), MapTree(EmptyProps), ArrTree(<<Leaf(Num(1))>>) }

ObjPathTokens == { StrTok(KEY_A), StrTok(KEY_B), StrTok(<<DIGIT0>>), StrTok(<<DIGIT1>>), NumTok(0), NumTok(1) }

ObjPathInputs == UNION { [1..n -> ObjPathTokens] : n \in 0..MaxObjPathLen }

\* the heap and the value of a tree literal, children first
RECURSIVE Alloc(_, _)
RECURSIVE AllocAll(_, _)

AllocAll(h, trees) ==
  IF Len(trees) = 0 THEN [heap |-> h, vs |-> <<>>]
  ELSE LET first == Alloc(h, Head(trees))
           rest == AllocAll(first.heap, Tail(trees))
       IN [heap |-> rest.heap, vs |-> <<first.v>> \o rest.vs]

Alloc(h, tree) ==
  IF tree.k = "leaf" THEN [heap |-> h, v |-> tree.v]
  ELSE IF tree.k = "map" THEN
    LET keys == KeySeq(DOMAIN tree.f)
        kids == AllocAll(h, [j \in 1..Len(keys) |-> tree.f[keys[j]]])
        props == [k \in DOMAIN tree.f |-> kids.vs[CHOOSE j \in 1..Len(keys) : keys[j] = k]]
    IN [heap |-> Append(kids.heap, [arr |-> FALSE, len |-> 0, props |-> props]), v |-> Ref(Len(kids.heap) + 1)]
  ELSE
    LET kids == AllocAll(h, tree.e)
        props == [k \in { NumStr(j) : j \in 0..(Len(tree.e) - 1) } |-> kids.vs[NumVal(k) + 1]]
    IN [heap |-> Append(kids.heap, [arr |-> TRUE, len |-> Len(tree.e), props |-> props]), v |-> Ref(Len(kids.heap) + 1)]

\* the arguments each operation is called with
RootInputs(op) == IF op = "set" THEN MappingInputs ELSE TreeInputs
OtherInputs(op) == IF op = "get" THEN {Leaf(UNDEFINED)} ELSE IF op = "set" THEN SetValueInputs ELSE TreeInputs
PathInputsOf(op) == IF op = "merge" THEN {<<>>} ELSE ObjPathInputs

InitTree ==
  \E op \in {"get", "set", "merge"} :
    \E r \in RootInputs(op), o \in OtherInputs(op), p \in PathInputsOf(op) :
      LET first == Alloc(<<>>, r)
          second == Alloc(first.heap, o)
      IN /\ pc = "start"
         /\ args = [op |-> op, root |-> r, other |-> o, path |-> p,
                    value |-> first.v, patch |-> second.v, heap0 |-> second.heap]
         /\ ret = <<>>
         /\ heap = second.heap

GetValueByPath ==
  /\ pc = "start" /\ args.op = "get"
  /\ pc' = "got"
  /\ ret' = <<getValueByPath(heap, args.value, args.path)>>
  /\ UNCHANGED <<args, heap>>

SetValueByPath ==
  /\ pc = "start" /\ args.op = "set"
  /\ LET done == setValueByPath(heap, args.value, args.path, args.patch, 0)
     IN /\ heap' = done.heap
        /\ ret' = <<[ok |-> done.ok, v |-> UNDEFINED]>>
  /\ pc' = "set"
  /\ UNCHANGED args

GetAfterSet ==
  /\ pc = "set" /\ ret[1].ok
  /\ pc' = "setget"
  /\ ret' = Append(ret, getValueByPath(heap, args.value, args.path))
  /\ UNCHANGED <<args, heap>>

MergeValues ==
  /\ pc = "start" /\ args.op = "merge"
  /\ LET merged == mergeValues(heap, args.value, args.patch)
     IN /\ heap' = merged.heap
        /\ ret' = <<Returned(merged.v)>>
  /\ pc' = "merged"
  /\ UNCHANGED args

NextTree == GetValueByPath \/ SetValueByPath \/ GetAfterSet \/ MergeValues

SpecTree == InitTree /\ [][NextTree]_vars

\* some step of the path finds no entry in the tree literal: the value
\* reached is null or a number, or the container has no such key (the one
\* character of the string 's' counts as its entry 0)
RECURSIVE Misses(_, _)
Misses(tree, path) ==
  IF Len(path) = 0 THEN FALSE
  ELSE LET key == String(Head(path)) IN
       IF tree.k = "map" THEN key \notin DOMAIN tree.f \/ Misses(tree.f[key], Tail(path))
       ELSE IF tree.k = "arr"
       THEN ~IsIndexKey(key) \/ NumVal(key) >= Len(tree.e) \/ Misses(tree.e[NumVal(key) + 1], Tail(path))
       ELSE IF tree.v = STRING_S /\ key = <<DIGIT0>> THEN Misses(tree, Tail(path))
       ELSE TRUE

\* C6: getValueByPath never raises, and returns undefined whenever a step
\* of the path finds no entry, an intermediate scalar or null included.
C6_GetIsTotal ==
  pc = "got" => (ret[1].ok /\ (Misses(args.root, args.path) => ret[1].v = UNDEFINED))

\* C7: for a mapping root and a non-empty path, setValueByPath returns
\* without raising and getValueByPath of the same path then returns v.
C7_SetPlacesValue ==
  (args.op = "set" /\ Len(args.path) > 0) =>
    /\ pc = "set" => ret[1].ok
    /\ pc = "setget" => ret[2] = Returned(args.patch)

\* C8: mergeValues returns patch itself unless both arguments are
\* sequences or both are mappings.
C8_MismatchReturnsPatch ==
  (pc = "merged" /\ ~(args.root.k = "arr" /\ args.other.k = "arr")
                 /\ ~(args.root.k = "map" /\ args.other.k = "map")) =>
    ret[1] = Returned(args.patch)

\* C9: mergeValues changes no object that existed before the call: value,
\* patch and every container nested in them keep their contents.
C9_MergeIsNonDestructive ==
  pc = "merged" => \A a \in 1..Len(args.heap0) : heap[a] = args.heap0[a]

C9_Witness ==
  /\ pc = "merged"
  /\ args.root.k = "map" /\ args.other.k = "map"
  /\ KEY_A \in DOMAIN args.root.f /\ KEY_A \in DOMAIN args.other.f
  /\ args.root.f[KEY_A].k = "map" /\ args.other.f[KEY_A].k = "map"
  /\ args.other.f[KEY_A].f # EmptyProps
  /\ Len(heap) = Len(args.heap0) + 2
  /\ heap[Len(heap)].props # args.heap0[args.value.n].props

====
